---- MODULE Spec2Model ----
(***************************************************************************)
(* Chain-state machine of the UTXO ledger (src/src/blockchain): the        *)
(* transaction model, the UTXO set, blocks with Merkle commitment and      *)
(* proof of work, and the chain manager with its fork handling.            *)
(*                                                                         *)
(* A SHA-256 digest is modelled by its preimage, flattened to a sequence   *)
(* of integers with length prefixes and headed by the checksum of that     *)
(* sequence, so that hashing is collision-free and equality of digests is  *)
(* equality of what was hashed.  The leading hexadecimal digits of a       *)
(* digest, which is all proof of work looks at, are a fixed function of    *)
(* the checksum (HexDigits).                                               *)
(***************************************************************************)
EXTENDS Integers, Sequences, FiniteSets, TLC

(***************************************************************************)
(* Bounds of the model.                                                    *)
(***************************************************************************)
\* longest canonical chain (genesis included) that still accepts a block
MaxChain == 3
\* largest pending pool that still accepts a transaction
MaxPending == 2
\* most fork sequences tracked at once
MaxForks == 1

(***************************************************************************)
(* Program constants.                                                      *)
(***************************************************************************)
\* Blockchain(difficulty=2)
Difficulty == 2
\* fixed coinbase reward
Reward == 50
\* BlockHeader.version
Version == 1
\* BlockHeader.timestamp: datetime.now() is evaluated once, when the class
\* is defined, so every header of a process carries the same timestamp
HeaderTime == 0

\* the mock authorization token
MockSignature == 0

\* addresses (opaque strings in the program)
Address == {1, 2}

(***************************************************************************)
(* Digests.                                                                *)
(***************************************************************************)
\* the sum of a sequence of numbers, by halves
RECURSIVE SumSeq(_)
SumSeq(s) ==
    IF s = <<>> THEN 0
    ELSE IF Len(s) = 1 THEN s[1]
    ELSE LET half == Len(s) \div 2
         IN  SumSeq(SubSeq(s, 1, half)) + SumSeq(SubSeq(s, half + 1, Len(s)))

\* the digest of a preimage: its checksum, then the preimage
Digest(preimage) == <<SumSeq(preimage)>> \o preimage

\* a digest embedded in a larger preimage, with its length
Enc(h) == <<Len(h)>> \o h

\* SumSeq(Enc(h)) for a digest h, whose head is the sum of its tail
EncSum(h) == Len(h) + 2 * h[1]

\* sha256().hexdigest(): the digest of the empty input
EmptyDigest == <<0>>

\* "0" * 64, the previous hash of the genesis block
ZeroHash == <<0, 0>>

\* the two leading hexadecimal digits of a digest
HexDigits(h) == <<(h[1] % 4) * 4, ((h[1] \div 4) % 4) * 4>>

\* hash[:n]
HexPrefix(h, n) == SubSeq(HexDigits(h), 1, n)

\* '0' * n
Zeros(n) == [i \in 1..n |-> 0]

(***************************************************************************)
(* Transaction model (transaction.py).                                     *)
(***************************************************************************)
TransactionInput(txid, output_index, signature) ==
    [txid |-> txid, output_index |-> output_index, signature |-> signature]

TransactionOutput(value, recipient) ==
    [value |-> value, recipient |-> recipient]

RECURSIVE InputsData(_)
InputsData(inputs) ==
    IF inputs = <<>> THEN <<>>
    ELSE Enc(Head(inputs).txid)
         \o <<Head(inputs).output_index, Head(inputs).signature>>
         \o InputsData(Tail(inputs))

RECURSIVE OutputsData(_)
OutputsData(outputs) ==
    IF outputs = <<>> THEN <<>>
    ELSE <<Head(outputs).value, Head(outputs).recipient>>
         \o OutputsData(Tail(outputs))

calculate_txid(inputs, outputs, timestamp) ==
    Digest(<<1, timestamp, Len(inputs)>> \o InputsData(inputs)
           \o <<Len(outputs)>> \o OutputsData(outputs))

Transaction(inputs, outputs, timestamp) ==
    [inputs |-> inputs, outputs |-> outputs, timestamp |-> timestamp,
     txid |-> calculate_txid(inputs, outputs, timestamp)]

is_coinbase(tx) == tx.inputs = <<>>

RECURSIVE SumValues(_)
SumValues(outputs) ==
    IF outputs = <<>> THEN 0 ELSE Head(outputs).value + SumValues(Tail(outputs))

(***************************************************************************)
(* UTXO set (utxo.py): a dictionary from <<txid, output_index>> to the     *)
(* output, modelled as a function.                                         *)
(***************************************************************************)
EmptyUtxo == <<>>

add_utxo(utxos, txid, output_index, output) ==
    (<<txid, output_index>> :> output) @@ utxos

remove_utxo(utxos, txid, output_index) ==
    [k \in (DOMAIN utxos) \ {<<txid, output_index>>} |-> utxos[k]]

has_utxo(utxos, txid, output_index) == <<txid, output_index>> \in DOMAIN utxos

get_utxo(utxos, txid, output_index) == utxos[<<txid, output_index>>]

RECURSIVE SumOver(_, _)
SumOver(utxos, keys) ==
    IF keys = {} THEN 0
    ELSE LET k == CHOOSE x \in keys : TRUE
         IN  utxos[k].value + SumOver(utxos, keys \ {k})

\* get_balance without the test of the recipient
get_balance_of_all(utxos, address) == SumOver(utxos, DOMAIN utxos)

get_balance(utxos, address) ==
    SumOver(utxos, {k \in DOMAIN utxos : utxos[k].recipient = address})

\* the loop of validate_transaction without the set of inputs already seen
RECURSIVE ValidateInputs_unseen(_, _, _, _, _)
ValidateInputs_unseen(utxos, tx, i, seen_inputs, total_input) ==
    IF i > Len(tx.inputs)
    THEN IF total_input < SumValues(tx.outputs)
         THEN [valid |-> FALSE, total_input |-> 0]
         ELSE [valid |-> TRUE, total_input |-> total_input]
    ELSE LET tx_input == tx.inputs[i]
         IN  IF ~has_utxo(utxos, tx_input.txid, tx_input.output_index)
             THEN [valid |-> FALSE, total_input |-> 0]
             ELSE ValidateInputs_unseen(utxos, tx, i + 1, seen_inputs,
                      total_input
                      + get_utxo(utxos, tx_input.txid, tx_input.output_index).value)

\* the loop of validate_transaction from input position i on
RECURSIVE ValidateInputs(_, _, _, _, _)
ValidateInputs(utxos, tx, i, seen_inputs, total_input) ==
    IF i > Len(tx.inputs)
    THEN IF total_input < SumValues(tx.outputs)
         THEN [valid |-> FALSE, total_input |-> 0]
         ELSE [valid |-> TRUE, total_input |-> total_input]
    ELSE LET tx_input == tx.inputs[i]
             input_key == <<tx_input.txid, tx_input.output_index>>
         IN  IF input_key \in seen_inputs
             THEN [valid |-> FALSE, total_input |-> 0]
             ELSE IF ~has_utxo(utxos, tx_input.txid, tx_input.output_index)
             THEN [valid |-> FALSE, total_input |-> 0]
             ELSE ValidateInputs(utxos, tx, i + 1, seen_inputs \cup {input_key},
                      total_input
                      + get_utxo(utxos, tx_input.txid, tx_input.output_index).value)

validate_transaction(utxos, tx) ==
    IF is_coinbase(tx)
    THEN [valid |-> TRUE, total_input |-> 0]
    ELSE ValidateInputs(utxos, tx, 1, {}, 0)

RECURSIVE RemoveInputs(_, _)
RemoveInputs(utxos, inputs) ==
    IF inputs = <<>> THEN utxos
    ELSE RemoveInputs(remove_utxo(utxos, Head(inputs).txid, Head(inputs).output_index),
                      Tail(inputs))

\* outputs are keyed by their position, counted from 0
RECURSIVE AddOutputs(_, _, _, _)
AddOutputs(utxos, txid, outputs, i) ==
    IF i > Len(outputs) THEN utxos
    ELSE AddOutputs(add_utxo(utxos, txid, i - 1, outputs[i]), txid, outputs, i + 1)

\* apply_transaction that adds the new outputs and leaves the spent ones
apply_transaction_keeps_inputs(utxos, tx) ==
    AddOutputs(utxos, tx.txid, tx.outputs, 1)

apply_transaction(utxos, tx) ==
    AddOutputs(RemoveInputs(utxos, tx.inputs), tx.txid, tx.outputs, 1)

RECURSIVE ApplyTransactions(_, _)
ApplyTransactions(utxos, transactions) ==
    IF transactions = <<>> THEN utxos
    ELSE ApplyTransactions(apply_transaction(utxos, Head(transactions)),
                           Tail(transactions))

apply_block(utxos, block) == ApplyTransactions(utxos, block.transactions)

(***************************************************************************)
(* Block (block.py).                                                       *)
(***************************************************************************)
\* the hash of a pair that does not depend on which hash comes first
HashPair_unordered(left, right) ==
    IF left[1] <= right[1]
    THEN <<2 + EncSum(left) + EncSum(right), 2>> \o Enc(left) \o Enc(right)
    ELSE <<2 + EncSum(left) + EncSum(right), 2>> \o Enc(right) \o Enc(left)

\* sha256((left + right).encode()).hexdigest()
HashPair(left, right) ==
    <<2 + EncSum(left) + EncSum(right), 2>> \o Enc(left) \o Enc(right)

\* one level of the tree: hash adjacent pairs of an even-length list
RECURSIVE HashPairs(_)
HashPairs(hashes) ==
    IF hashes = <<>> THEN <<>>
    ELSE <<HashPair(hashes[1], hashes[2])>> \o HashPairs(Tail(Tail(hashes)))

\* if the number of hashes is odd, duplicate the last one
PadOdd(hashes) ==
    IF Len(hashes) % 2 # 0 THEN Append(hashes, hashes[Len(hashes)]) ELSE hashes

\* the while loop of calculate_merkle_root
RECURSIVE MerkleLoop(_)
MerkleLoop(hashes) ==
    IF Len(hashes) > 1
    THEN LET new_hashes == HashPairs(hashes)
         IN  MerkleLoop(IF Len(new_hashes) > 1 THEN PadOdd(new_hashes)
                        ELSE new_hashes)
    ELSE hashes[1]

calculate_merkle_root(transactions) ==
    IF transactions = <<>> THEN EmptyDigest
    ELSE MerkleLoop(PadOdd([i \in 1..Len(transactions) |-> transactions[i].txid]))

\* BlockHeader.calculate_hash
header_hash(header) ==
    <<3 + header.version + header.timestamp + header.difficulty + header.nonce
      + EncSum(header.previous_hash) + EncSum(header.merkle_root),
      3, header.version, header.timestamp, header.difficulty, header.nonce>>
    \o Enc(header.previous_hash) \o Enc(header.merkle_root)

\* Block.calculate_hash
calculate_hash(block) == header_hash(block.header)

\* Block.__init__; timestamp is the wall clock at construction
Block(index, transactions, previous_hash, difficulty, timestamp) ==
    LET merkle_root == calculate_merkle_root(transactions)
        header == [previous_hash |-> previous_hash, merkle_root |-> merkle_root,
                   difficulty |-> difficulty, version |-> Version,
                   timestamp |-> HeaderTime, nonce |-> 0]
    IN  [index |-> index, transactions |-> transactions,
         previous_hash |-> previous_hash, difficulty |-> difficulty,
         timestamp |-> timestamp, merkle_root |-> merkle_root, nonce |-> 0,
         header |-> header, hash |-> header_hash(header)]

meets_target(block) ==
    HexPrefix(block.hash, block.difficulty) = Zeros(block.difficulty)

\* mine that stops one nonce after the first hash that meets the target
RECURSIVE mine_past(_)
mine_past(block) ==
    LET header == [block.header EXCEPT !.nonce = block.nonce + 1]
        next == [block EXCEPT !.nonce = block.nonce + 1,
                              !.header = header,
                              !.hash = header_hash(header)]
    IN  IF meets_target(block) THEN next ELSE mine_past(next)

RECURSIVE mine(_)
mine(block) ==
    IF meets_target(block) THEN block
    ELSE LET header == [block.header EXCEPT !.nonce = block.nonce + 1]
         IN  mine([block EXCEPT !.nonce = block.nonce + 1,
                                !.header = header,
                                !.hash = header_hash(header)])

\* validate without the recomputation of the Merkle root
validate_unrooted(block, previous_hash) ==
    IF block.previous_hash # previous_hash THEN FALSE
    ELSE IF ~meets_target(block) THEN FALSE
    ELSE TRUE

validate(block, previous_hash) ==
    IF block.previous_hash # previous_hash THEN FALSE
    ELSE IF ~meets_target(block) THEN FALSE
    ELSE IF calculate_merkle_root(block.transactions) # block.merkle_root THEN FALSE
    ELSE TRUE

(***************************************************************************)
(* Chain manager (blockchain.py).  A Blockchain object is the record       *)
(* [chain, pending_transactions, utxo, forks]; every method is an operator *)
(* from the object before the call to the object after it and the value    *)
(* returned.                                                               *)
(***************************************************************************)
\* Python's seq[:n] and seq[n:]
Take(seq, n) == SubSeq(seq, 1, IF n < Len(seq) THEN n ELSE Len(seq))
Drop(seq, n) == SubSeq(seq, n + 1, Len(seq))

RemoveAt(seq, i) == SubSeq(seq, 1, i - 1) \o SubSeq(seq, i + 1, Len(seq))

genesis_block == mine(Block(0, <<>>, ZeroHash, Difficulty, 0))

Blockchain ==
    [chain |-> <<genesis_block>>, pending_transactions |-> <<>>,
     utxo |-> EmptyUtxo, forks |-> <<>>]

last_block(self) == self.chain[Len(self.chain)]

\* add_transaction that applies the transaction to the live set on submission
add_transaction_applies(self, tx) ==
    IF validate_transaction(self.utxo, tx).valid
    THEN [self |-> [self EXCEPT !.pending_transactions = Append(@, tx),
                                !.utxo = apply_transaction(@, tx)],
          ret |-> TRUE]
    ELSE [self |-> self, ret |-> FALSE]

add_transaction(self, tx) ==
    IF validate_transaction(self.utxo, tx).valid
    THEN [self |-> [self EXCEPT !.pending_transactions = Append(@, tx)],
          ret |-> TRUE]
    ELSE [self |-> self, ret |-> FALSE]

\* the loop of is_valid_block without the set of ids already seen
RECURSIVE ValidateTransactions_unseen(_, _, _, _)
ValidateTransactions_unseen(block, i, temp_utxo, seen_txids) ==
    IF i > Len(block.transactions) THEN TRUE
    ELSE LET tx == block.transactions[i]
         IN  IF is_coinbase(tx)
             THEN ValidateTransactions_unseen(block, i + 1, temp_utxo, seen_txids)
             ELSE IF ~validate_transaction(temp_utxo, tx).valid THEN FALSE
             ELSE ValidateTransactions_unseen(block, i + 1,
                                              apply_transaction(temp_utxo, tx),
                                              seen_txids)

\* the loop of is_valid_block with every transaction validated against the
\* snapshot as it was taken
RECURSIVE ValidateTransactions_unapplied(_, _, _, _)
ValidateTransactions_unapplied(block, i, temp_utxo, seen_txids) ==
    IF i > Len(block.transactions) THEN TRUE
    ELSE LET tx == block.transactions[i]
         IN  IF tx.txid \in seen_txids THEN FALSE
             ELSE IF is_coinbase(tx)
             THEN ValidateTransactions_unapplied(block, i + 1, temp_utxo,
                                                 seen_txids \cup {tx.txid})
             ELSE IF ~validate_transaction(temp_utxo, tx).valid THEN FALSE
             ELSE ValidateTransactions_unapplied(block, i + 1, temp_utxo,
                                                 seen_txids \cup {tx.txid})

\* the loop of is_valid_block over the transactions from position i on,
\* working on temp_utxo, the deep copy of the live set
RECURSIVE ValidateTransactions(_, _, _, _)
ValidateTransactions(block, i, temp_utxo, seen_txids) ==
    IF i > Len(block.transactions) THEN TRUE
    ELSE LET tx == block.transactions[i]
         IN  IF tx.txid \in seen_txids THEN FALSE
             ELSE IF is_coinbase(tx)
             THEN ValidateTransactions(block, i + 1, temp_utxo,
                                       seen_txids \cup {tx.txid})
             ELSE IF ~validate_transaction(temp_utxo, tx).valid THEN FALSE
             ELSE ValidateTransactions(block, i + 1,
                                       apply_transaction(temp_utxo, tx),
                                       seen_txids \cup {tx.txid})

\* coinbase_ok without the comparison of the value with the reward
coinbase_ok_count_only(block) ==
    IF block.transactions # <<>> /\ is_coinbase(block.transactions[1])
    THEN Len(block.transactions[1].outputs) = 1
    ELSE TRUE

\* the coinbase check that ends is_valid_block
coinbase_ok(block) ==
    IF block.transactions # <<>> /\ is_coinbase(block.transactions[1])
    THEN LET coinbase == block.transactions[1]
         IN  ~(Len(coinbase.outputs) # 1 \/ coinbase.outputs[1].value # Reward)
    ELSE TRUE

is_valid_block(self, block) ==
    IF ~validate(block, last_block(self).hash) THEN FALSE
    ELSE IF ~ValidateTransactions(block, 1, self.utxo, {}) THEN FALSE
    ELSE coinbase_ok(block)

\* cumulative work of a chain
get_chain_difficulty(chain) ==
    SumSeq([i \in 1..Len(chain) |-> 2 ^ chain[i].difficulty])

RECURSIVE ApplyBlocks(_, _)
ApplyBlocks(utxos, blocks) ==
    IF blocks = <<>> THEN utxos
    ELSE ApplyBlocks(apply_block(utxos, Head(blocks)), Tail(blocks))

\* _switch_to_fork that also empties the pending pool
_switch_to_fork_clears_pool(self, fork_chain, fork_index) ==
    LET up_to_fork_point == ApplyBlocks(EmptyUtxo,
                                        Take(self.chain, Len(fork_chain) - 1))
        rebuilt == ApplyBlocks(up_to_fork_point,
                               Drop(fork_chain, Len(self.chain)))
    IN  [self EXCEPT !.utxo = rebuilt,
                     !.chain = fork_chain,
                     !.forks = RemoveAt(self.forks, fork_index),
                     !.pending_transactions = <<>>]

\* fork_chain is forks[fork_index], already extended
_switch_to_fork(self, fork_chain, fork_index) ==
    LET up_to_fork_point == ApplyBlocks(EmptyUtxo,
                                        Take(self.chain, Len(fork_chain) - 1))
        rebuilt == ApplyBlocks(up_to_fork_point,
                               Drop(fork_chain, Len(self.chain)))
    IN  [self EXCEPT !.utxo = rebuilt,
                     !.chain = fork_chain,
                     !.forks = RemoveAt(self.forks, fork_index)]

\* the test that decides whether an extended fork replaces the chain
fork_wins(self, fork_chain) == Len(fork_chain) > Len(self.chain)

\* _handle_fork that starts a new fork from the whole canonical chain
_handle_fork_from_tip(self, block) ==
    LET extends == {i \in 1..Len(self.forks) :
                      block.previous_hash
                      = self.forks[i][Len(self.forks[i])].hash}
        matching_blocks == {j \in 1..Len(self.chain) :
                              self.chain[j].hash = block.previous_hash}
    IN  IF extends # {}
        THEN LET i == CHOOSE x \in extends : \A y \in extends : x <= y
                 fork_chain == Append(self.forks[i], block)
                 extended == [self EXCEPT !.forks[i] = fork_chain]
             IN  [self |-> IF fork_wins(extended, fork_chain)
                           THEN _switch_to_fork(extended, fork_chain, i)
                           ELSE extended,
                  ret |-> TRUE]
        ELSE IF matching_blocks # {}
        THEN LET fork_chain == Append(self.chain, block)
             IN  [self |-> [self EXCEPT !.forks = Append(@, fork_chain)],
                  ret |-> TRUE]
        ELSE [self |-> self, ret |-> FALSE]

_handle_fork(self, block) ==
    LET extends == {i \in 1..Len(self.forks) :
                      block.previous_hash
                      = self.forks[i][Len(self.forks[i])].hash}
        matching_blocks == {j \in 1..Len(self.chain) :
                              self.chain[j].hash = block.previous_hash}
    IN  IF extends # {}
        THEN LET i == CHOOSE x \in extends : \A y \in extends : x <= y
                 fork_chain == Append(self.forks[i], block)
                 extended == [self EXCEPT !.forks[i] = fork_chain]
             IN  [self |-> IF fork_wins(extended, fork_chain)
                           THEN _switch_to_fork(extended, fork_chain, i)
                           ELSE extended,
                  ret |-> TRUE]
        ELSE IF matching_blocks # {}
        THEN LET fork_index == CHOOSE x \in matching_blocks :
                                   \A y \in matching_blocks : x <= y
                 fork_chain == Append(Take(self.chain, fork_index), block)
             IN  [self |-> [self EXCEPT !.forks = Append(@, fork_chain)],
                  ret |-> TRUE]
        ELSE [self |-> self, ret |-> FALSE]

\* add_block that appends the block before it validates it
add_block_appends_first(self, block) ==
    IF ~is_valid_block(self, block)
    THEN [self |-> [self EXCEPT !.chain = Append(@, block)], ret |-> FALSE]
    ELSE IF block.previous_hash # last_block(self).hash
    THEN _handle_fork(self, block)
    ELSE [self |-> [self EXCEPT !.chain = Append(@, block),
                                !.utxo = apply_block(@, block)],
          ret |-> TRUE]

\* add_block that leaves the reward transaction out of the live set, the
\* way validation skips it
add_block_skips_coinbase(self, block) ==
    IF ~is_valid_block(self, block) THEN [self |-> self, ret |-> FALSE]
    ELSE IF block.previous_hash # last_block(self).hash
    THEN _handle_fork(self, block)
    ELSE [self |-> [self EXCEPT
                      !.chain = Append(@, block),
                      !.utxo = ApplyTransactions(@,
                                  SelectSeq(block.transactions,
                                            LAMBDA tx : ~is_coinbase(tx)))],
          ret |-> TRUE]

add_block(self, block) ==
    IF ~is_valid_block(self, block) THEN [self |-> self, ret |-> FALSE]
    ELSE IF block.previous_hash # last_block(self).hash
    THEN _handle_fork(self, block)
    ELSE [self |-> [self EXCEPT !.chain = Append(@, block),
                                !.utxo = apply_block(@, block)],
          ret |-> TRUE]

\* mine_block without the test of the pending pool
mine_block_always(self, miner_address, timestamp) ==
    LET coinbase_tx == Transaction(<<>>,
            <<TransactionOutput(Reward, miner_address)>>, timestamp)
        block_transactions == <<coinbase_tx>> \o self.pending_transactions
        new_block == mine(Block(Len(self.chain), block_transactions,
                                last_block(self).hash, Difficulty, timestamp))
        added == add_block(self, new_block)
    IN  IF added.ret
        THEN [self |-> [added.self EXCEPT !.pending_transactions = <<>>],
              ret |-> TRUE, block |-> new_block]
        ELSE [self |-> added.self, ret |-> FALSE, block |-> new_block]

\* timestamp is the wall clock when the coinbase and the block are built;
\* ret is FALSE for None, and block is the block that was built
mine_block(self, miner_address, timestamp) ==
    IF self.pending_transactions = <<>>
    THEN [self |-> self, ret |-> FALSE, block |-> genesis_block]
    ELSE LET coinbase_tx == Transaction(<<>>,
                 <<TransactionOutput(Reward, miner_address)>>, timestamp)
             block_transactions == <<coinbase_tx>> \o self.pending_transactions
             new_block == mine(Block(Len(self.chain), block_transactions,
                                     last_block(self).hash, Difficulty, timestamp))
             added == add_block(self, new_block)
         IN  IF added.ret
             THEN [self |-> [added.self EXCEPT !.pending_transactions = <<>>],
                   ret |-> TRUE, block |-> new_block]
             ELSE [self |-> added.self, ret |-> FALSE, block |-> new_block]

(***************************************************************************)
(* The state machine: one Blockchain object driven through its interface. *)
(***************************************************************************)
VARIABLES
    chain,                  \* Blockchain.chain
    pending_transactions,   \* Blockchain.pending_transactions
    utxo,                   \* Blockchain.utxo.utxos
    forks,                  \* Blockchain.forks
    last                    \* the call that has just returned: its name,
                            \* arguments and result; "idle" between calls

vars == <<chain, pending_transactions, utxo, forks, last>>

this == [chain |-> chain, pending_transactions |-> pending_transactions,
         utxo |-> utxo, forks |-> forks]

\* placeholders for the argument a call does not have
NoTx == Transaction(<<>>, <<>>, 0)
NoBlock == genesis_block

Call(op, tx, block, ret) == [op |-> op, tx |-> tx, block |-> block, ret |-> ret]

Idle == Call("idle", NoTx, NoBlock, TRUE)

Becomes(self) ==
    /\ chain' = self.chain
    /\ pending_transactions' = self.pending_transactions
    /\ utxo' = self.utxo
    /\ forks' = self.forks

Init ==
    /\ chain = Blockchain.chain
    /\ pending_transactions = Blockchain.pending_transactions
    /\ utxo = Blockchain.utxo
    /\ forks = Blockchain.forks
    /\ last = Idle

(***************************************************************************)
(* Inputs.  Transaction objects are built by the caller right before the   *)
(* call, so a new one carries a timestamp later than that of every         *)
(* transaction the ledger already holds.                                   *)
(***************************************************************************)
Range(seq) == {seq[i] : i \in 1..Len(seq)}

BlocksHeld == Range(chain) \cup UNION {Range(forks[i]) : i \in 1..Len(forks)}

TxsHeld == Range(pending_transactions)
           \cup UNION {Range(b.transactions) : b \in BlocksHeld}

Now == LET times == {tx.timestamp : tx \in TxsHeld} \cup {0}
       IN  1 + CHOOSE t \in times : \A u \in times : u <= t

\* a reference to an output that never existed
Dangling == TransactionInput(Digest(<<1, 0, 0, 0>>), 0, MockSignature)

Spend(key) == TransactionInput(key[1], key[2], MockSignature)

\* the key of the live set that multi-input transactions start from
FirstKey == CHOOSE k \in DOMAIN utxo : TRUE

Pay(value) == <<TransactionOutput(value, 2)>>

\* a zero-input transaction; a spend of an output that never existed; per
\* unspent output a payment of 30, a payment of 60 and a transaction that
\* names it twice; two-input payments with change
NewTransactions ==
    {Transaction(<<>>, Pay(60), Now), Transaction(<<Dangling>>, Pay(30), Now)}
    \cup {Transaction(<<Spend(k)>>, Pay(v), Now) : k \in DOMAIN utxo, v \in {30, 60}}
    \cup {Transaction(<<Spend(k), Spend(k)>>, Pay(30), Now) : k \in DOMAIN utxo}
    \cup (IF DOMAIN utxo = {} THEN {}
          ELSE {Transaction(<<Spend(FirstKey), Spend(k)>>,
                            <<TransactionOutput(30, 2), TransactionOutput(20, 1)>>,
                            Now) : k \in DOMAIN utxo \ {FirstKey}})

\* the addresses mineBlock is called with
Miners == {1}

(***************************************************************************)
(* submitTransaction: a new transaction, or one submitted before.          *)
(***************************************************************************)
SubmitTransaction ==
    /\ last = Idle
    /\ Len(chain) < MaxChain
    /\ Len(pending_transactions) < MaxPending
    /\ \E tx \in NewTransactions \cup Range(pending_transactions) :
         LET r == add_transaction(this, tx)
         IN  /\ Becomes(r.self)
             /\ last' = Call("add_transaction", tx, NoBlock, r.ret)

(***************************************************************************)
(* mineBlock.                                                              *)
(***************************************************************************)
MineBlock ==
    /\ last = Idle
    /\ Len(chain) < MaxChain
    /\ \E miner_address \in Miners :
         LET r == mine_block(this, miner_address, Now)
         IN  /\ Becomes(r.self)
             /\ last' = Call("mine_block", NoTx, r.block, r.ret)

(***************************************************************************)
(* addBlock with a block built outside the manager.                        *)
(***************************************************************************)
\* the reward transaction an outside miner builds for itself
Coinbase == Transaction(<<>>, <<TransactionOutput(Reward, 2)>>, Now)

\* reward transactions of another value, with two outputs and with none
MalformedCoinbases ==
    {Transaction(<<>>, <<TransactionOutput(60, 2)>>, Now),
     Transaction(<<>>, <<TransactionOutput(Reward, 2), TransactionOutput(Reward, 1)>>,
                 Now),
     Transaction(<<>>, <<>>, Now)}

\* t spends an unspent output; the second transaction spends t's output,
\* or spends again what t spent
SpendingPairs ==
    UNION {LET t == Transaction(<<Spend(k)>>, Pay(30), Now)
           IN  {<<t, Transaction(<<TransactionInput(t.txid, 0, MockSignature)>>,
                                 Pay(30), Now)>>,
                <<t, Transaction(<<Spend(k)>>, <<TransactionOutput(30, 1)>>, Now)>>}
           : k \in DOMAIN utxo}

TransactionLists ==
    {<<>>, <<Coinbase>>, <<Coinbase, Coinbase>>}
    \cup {<<cb>> : cb \in MalformedCoinbases}
    \cup {<<Coinbase, t>> : t \in NewTransactions \cup Range(pending_transactions)}
    \cup {<<t>> : t \in Range(pending_transactions)}
    \cup {<<t, Coinbase>> : t \in Range(pending_transactions)}
    \cup {<<Coinbase, t, u>> : t \in Range(pending_transactions),
                               u \in Range(pending_transactions)}
    \cup {<<Coinbase>> \o pair : pair \in SpendingPairs}

\* a digest that is the hash of no block
UnknownHash == <<3, 0>>

\* the position and the hash of every block another block can be built on
Parents ==
    {<<j, chain[j].hash>> : j \in 1..Len(chain)}
    \cup {<<Len(forks[i]), forks[i][Len(forks[i])].hash>> : i \in 1..Len(forks)}
    \cup {<<0, UnknownHash>>}

Tip == <<Len(chain), chain[Len(chain)].hash>>

\* a block whose transaction list was replaced after it was mined
Tampered(block, transactions) == [block EXCEPT !.transactions = transactions]

\* mined blocks on the canonical tip with every transaction list; mined
\* blocks on every other parent; blocks that were not mined, that declare
\* difficulty 0, and that were tampered with
CandidateBlocks ==
    {mine(Block(Tip[1], txs, Tip[2], Difficulty, Now)) : txs \in TransactionLists}
    \cup {mine(Block(p[1], <<Coinbase>>, p[2], Difficulty, Now)) : p \in Parents}
    \cup {Block(p[1], <<Coinbase>>, p[2], d, Now) :
            p \in Parents, d \in {0, Difficulty}}
    \cup {Tampered(mine(Block(Tip[1], <<Coinbase>>, Tip[2], Difficulty, Now)),
                   <<Coinbase, Coinbase>>)}

\* blocks that hold one well-formed reward transaction, built on any parent
\* by a miner at address 1 who works at the manager's difficulty or by a
\* miner at address 2 who declares difficulty 0
PlainBlocks ==
    {mine(Block(p[1],
                <<Transaction(<<>>, <<TransactionOutput(Reward, m[1])>>, Now)>>,
                p[2], m[2], Now)) :
       p \in Parents, m \in {<<1, Difficulty>>, <<2, 0>>}}

AddBlockFrom(blocks) ==
    /\ last = Idle
    /\ Len(chain) < MaxChain
    /\ \E block \in blocks :
         LET r == add_block(this, block)
         IN  /\ Becomes(r.self)
             /\ last' = Call("add_block", NoTx, block, r.ret)

AddBlock == AddBlockFrom(CandidateBlocks)

AddPlainBlock == AddBlockFrom(PlainBlocks)

(***************************************************************************)
(* Fork handling entered on its own, with a block that does not build on   *)
(* the canonical tip (the condition under which add_block calls it) and    *)
(* that passes the checks of is_valid_block against the previous hash it   *)
(* declares.                                                               *)
(***************************************************************************)
HandleFork ==
    /\ last = Idle
    /\ Len(chain) <= MaxChain
    /\ \E block \in PlainBlocks :
         /\ block.previous_hash # last_block(this).hash
         /\ validate(block, block.previous_hash)
         /\ ValidateTransactions(block, 1, utxo, {})
         /\ coinbase_ok(block)
         /\ LET r == _handle_fork(this, block)
            IN  /\ Len(r.self.forks) <= MaxForks
                /\ \A i \in 1..Len(r.self.forks) :
                     Len(r.self.forks[i]) <= MaxChain + 1
                /\ Becomes(r.self)
                /\ last' = Call("_handle_fork", NoTx, block, r.ret)

(***************************************************************************)
(* The caller takes the result; the ledger is idle until the next call.    *)
(***************************************************************************)
Return ==
    /\ last # Idle
    /\ last' = Idle
    /\ UNCHANGED <<chain, pending_transactions, utxo, forks>>

Next == SubmitTransaction \/ MineBlock \/ AddBlock \/ Return

Spec == Init /\ [][Next]_vars

NextFork == AddPlainBlock \/ HandleFork \/ Return

SpecFork == Init /\ [][NextFork]_vars

\* a ledger that takes transactions and mines them while competing blocks
\* arrive at its fork handling
NextReorg == SubmitTransaction \/ MineBlock \/ HandleFork \/ Return

SpecReorg == Init /\ [][NextReorg]_vars

(***************************************************************************)
(* A ledger driven through add_transaction and mine_block alone, one block *)
(* further than above, by callers who also hand in again a zero-input      *)
(* transaction that a canonical block already holds.                       *)
(***************************************************************************)
ConfirmedZeroInput ==
    {tx \in UNION {Range(chain[j].transactions) : j \in 1..Len(chain)} :
       is_coinbase(tx)}

\* a new zero-input transaction, a payment of 30 per unspent output, and
\* the zero-input transactions of the canonical blocks
RespendTransactions ==
    {Transaction(<<>>, Pay(60), Now)}
    \cup {Transaction(<<Spend(k)>>, Pay(30), Now) : k \in DOMAIN utxo}
    \cup ConfirmedZeroInput

SubmitTransactionAgain ==
    /\ last = Idle
    /\ Len(chain) <= MaxChain
    /\ Len(pending_transactions) < MaxPending
    /\ \E tx \in RespendTransactions :
         LET r == add_transaction(this, tx)
         IN  /\ Becomes(r.self)
             /\ last' = Call("add_transaction", tx, NoBlock, r.ret)

MineBlockOnLongChain ==
    /\ last = Idle
    /\ Len(chain) <= MaxChain
    /\ \E miner_address \in Miners :
         LET r == mine_block(this, miner_address, Now)
         IN  /\ Becomes(r.self)
             /\ last' = Call("mine_block", NoTx, r.block, r.ret)

NextRespend == SubmitTransactionAgain \/ MineBlockOnLongChain \/ Return

SpecRespend == Init /\ [][NextRespend]_vars

(***************************************************************************)
(* addBlock with blocks whose builder assigned a field of the Block object *)
(* after construction, leaving the header as it was.                       *)
(***************************************************************************)
\* a block on the canonical tip as Block.__init__ leaves it
HonestBlock == Block(Tip[1], <<Coinbase>>, Tip[2], Difficulty, Now)

\* the stored hash replaced by a digest that meets the target; a block
\* built and mined on another parent whose previous_hash field was then set
\* to the canonical tip; the difficulty field set to 0
ForgedBlocks ==
    {[HonestBlock EXCEPT !.hash = h] : h \in {ZeroHash, chain[1].hash}}
    \cup {[mine(Block(Tip[1], <<Coinbase>>, p[2], Difficulty, Now))
             EXCEPT !.previous_hash = Tip[2]] : p \in Parents \ {Tip}}
    \cup {[HonestBlock EXCEPT !.difficulty = 0]}

AddForgedBlock == AddBlockFrom(ForgedBlocks)

NextForged == AddPlainBlock \/ AddForgedBlock \/ Return

SpecForged == Init /\ [][NextForged]_vars

(***************************************************************************)
(* A UTXOSet on its own: validate_transaction and get_balance called on    *)
(* sets and transactions drawn from small universes.  The record of such a *)
(* call holds the name, the arguments and the value returned.              *)
(***************************************************************************)
\* most inputs of a transaction handed to validate_transaction
MaxInputs == 3

\* the (txid, output_index) pairs that entries and inputs are drawn from
UnitKeys ==
    {<<Digest(<<1, 0, 0, 0>>), 0>>, <<Digest(<<1, 0, 0, 0>>), 1>>,
     <<Digest(<<1, 1, 0, 0>>), 0>>}

\* the outputs an entry can hold
UnitOutputs ==
    {TransactionOutput(20, 1), TransactionOutput(50, 1), TransactionOutput(50, 2)}

\* every dictionary from some of the keys to outputs
UnitUtxoSets == UNION {[keys -> UnitOutputs] : keys \in SUBSET UnitKeys}

\* every list of at most MaxInputs inputs over the keys, repetitions included
UnitInputLists ==
    UNION {{[i \in 1..n |-> Spend(keys[i])] : keys \in [1..n -> UnitKeys]} :
             n \in 0..MaxInputs}

\* output lists that pay nothing, 50, 70 and 120
UnitOutputLists ==
    {<<>>, Pay(50), <<TransactionOutput(20, 1), TransactionOutput(50, 2)>>, Pay(120)}

UnitTransactions ==
    {Transaction(inputs, outputs, 1) :
       inputs \in UnitInputLists, outputs \in UnitOutputLists}

InitUtxo ==
    /\ chain = Blockchain.chain
    /\ pending_transactions = Blockchain.pending_transactions
    /\ forks = Blockchain.forks
    /\ utxo \in UnitUtxoSets
    /\ last = Idle

\* UTXOSet.validate_transaction(tx)
ValidateTransaction ==
    /\ last.op = "idle"
    /\ \E tx \in UnitTransactions :
         last' = [op |-> "validate_transaction", tx |-> tx,
                  ret |-> validate_transaction(utxo, tx)]
    /\ UNCHANGED <<chain, pending_transactions, utxo, forks>>

\* Blockchain.get_balance(address), which is UTXOSet.get_balance(address);
\* address 3 owns nothing
GetBalance ==
    /\ last.op = "idle"
    /\ \E address \in Address \cup {3} :
         last' = [op |-> "get_balance", address |-> address,
                  ret |-> get_balance(utxo, address)]
    /\ UNCHANGED <<chain, pending_transactions, utxo, forks>>

NextUtxo == ValidateTransaction \/ GetBalance

SpecUtxo == InitUtxo /\ [][NextUtxo]_vars

(***************************************************************************)
(* A Block on its own: built by its constructor, then mined, changed by    *)
(* its holder (its attributes are plain fields) and validated.  The record *)
(* of a call holds the block after the call and, where the call could have *)
(* changed it, the block before.                                           *)
(***************************************************************************)
\* most transactions of a block under test
MaxTransactions == 3

\* transactions with pairwise distinct ids
UnitBlockTransactions ==
    {Transaction(<<>>, Pay(10 * i), 1) : i \in 1..MaxTransactions}

\* every list of the transactions that holds none of them twice
UnitTransactionLists ==
    {txs \in UNION {[1..n -> UnitBlockTransactions] : n \in 0..MaxTransactions} :
       \A i, j \in DOMAIN txs : i # j => txs[i] # txs[j]}

\* the previous hashes a block is built on and validated against
UnitHashes == {genesis_block.hash, UnknownHash}

\* Block(index, transactions, previous_hash, difficulty)
UnitBlocks ==
    {Block(1, txs, h, d, 1) :
       txs \in UnitTransactionLists, h \in UnitHashes, d \in 0..Difficulty}

InitBlock ==
    /\ chain = Blockchain.chain
    /\ pending_transactions = Blockchain.pending_transactions
    /\ utxo = Blockchain.utxo
    /\ forks = Blockchain.forks
    /\ \E block \in UnitBlocks : last = [op |-> "Block", block |-> block]

\* block.mine() on a block as its constructor left it
Mine ==
    /\ last.op = "Block"
    /\ last' = [op |-> "mine", before |-> last.block, block |-> mine(last.block)]
    /\ UNCHANGED <<chain, pending_transactions, utxo, forks>>

\* every other ordering of a list
Reorderings(txs) ==
    {[i \in DOMAIN txs |-> txs[p[i]]] : p \in Permutations(DOMAIN txs)} \ {txs}

\* block.transactions = another ordering of the same transactions
Reorder ==
    /\ last.op = "mine"
    /\ \E txs \in Reorderings(last.block.transactions) :
         last' = [op |-> "reorder", before |-> last.block,
                  block |-> [last.block EXCEPT !.transactions = txs]]
    /\ UNCHANGED <<chain, pending_transactions, utxo, forks>>

\* one stored field of a block set to another value: the Merkle root, the
\* hash (to a digest with and without leading zeros) or the difficulty
Overwritten(block) ==
    ({[block EXCEPT !.merkle_root = r] : r \in {EmptyDigest, UnknownHash}}
     \cup {[block EXCEPT !.hash = h] : h \in {ZeroHash, UnknownHash}}
     \cup {[block EXCEPT !.difficulty = d] : d \in 0..Difficulty})
    \ {block}

Overwrite ==
    /\ last.op \in {"Block", "mine"}
    /\ \E block \in Overwritten(last.block) :
         last' = [op |-> "overwrite", before |-> last.block, block |-> block]
    /\ UNCHANGED <<chain, pending_transactions, utxo, forks>>

\* block.validate(previous_hash)
Validate ==
    /\ last.op \in {"Block", "mine", "reorder", "overwrite"}
    /\ \E previous_hash \in UnitHashes :
         last' = [op |-> "validate", before |-> last.block, block |-> last.block,
                  previous_hash |-> previous_hash,
                  ret |-> validate(last.block, previous_hash)]
    /\ UNCHANGED <<chain, pending_transactions, utxo, forks>>

NextBlock == Mine \/ Reorder \/ Overwrite \/ Validate

SpecBlock == InitBlock /\ [][NextBlock]_vars

(***************************************************************************)
(* The single-file ledger (src/blockchain.py): blocks hashed over their    *)
(* own fields, a UTXO dictionary changed on submission, and a chain check. *)
(* Its definitions carry the prefix Simple_; the object is the record      *)
(* [chain, pending_transactions, utxos] and its difficulty is Difficulty.  *)
(***************************************************************************)
\* timestamp of the genesis block: datetime(2024, 1, 1)
SimpleGenesisTime == 0
\* default timestamp of a Transaction: datetime.now() when the class is defined
SimpleTransactionTime == 1
\* default timestamp of a Block: datetime.now() when the class is defined
SimpleBlockTime == 2

Simple_Transaction(inputs, outputs) ==
    Transaction(inputs, outputs, SimpleTransactionTime)

\* checksum of the ids of a list of transactions inside a preimage
RECURSIVE SimpleTxidsSum(_)
SimpleTxidsSum(transactions) ==
    IF transactions = <<>> THEN 0
    ELSE EncSum(Head(transactions).txid) + SimpleTxidsSum(Tail(transactions))

RECURSIVE SimpleTxidsData(_)
SimpleTxidsData(transactions) ==
    IF transactions = <<>> THEN <<>>
    ELSE Enc(Head(transactions).txid) \o SimpleTxidsData(Tail(transactions))

\* Block.calculate_hash: index, transaction ids, previous hash, timestamp, nonce
Simple_calculate_hash(block) ==
    <<4 + block.index + block.timestamp + block.nonce
      + EncSum(block.previous_hash)
      + Len(block.transactions) + SimpleTxidsSum(block.transactions),
      4, block.index, block.timestamp, block.nonce>>
    \o Enc(block.previous_hash)
    \o <<Len(block.transactions)>> \o SimpleTxidsData(block.transactions)

\* Block(index, transactions, previous_hash, timestamp) and __post_init__
Simple_Block(index, transactions, previous_hash, timestamp) ==
    LET block == [index |-> index, transactions |-> transactions,
                  previous_hash |-> previous_hash, timestamp |-> timestamp,
                  nonce |-> 0, hash |-> <<>>]
    IN  [block EXCEPT !.hash = Simple_calculate_hash(block)]

\* mine that takes the next nonce and stops
Simple_mine_once(block, difficulty) ==
    LET next == [block EXCEPT !.nonce = block.nonce + 1]
    IN  [next EXCEPT !.hash = Simple_calculate_hash(next)]

RECURSIVE Simple_mine(_, _)
Simple_mine(block, difficulty) ==
    IF HexPrefix(block.hash, difficulty) = Zeros(difficulty) THEN block
    ELSE LET next == [block EXCEPT !.nonce = block.nonce + 1]
         IN  Simple_mine([next EXCEPT !.hash = Simple_calculate_hash(next)],
                         difficulty)

Simple_genesis_block == Simple_Block(0, <<>>, ZeroHash, SimpleGenesisTime)

Simple_Blockchain ==
    [chain |-> <<Simple_genesis_block>>, pending_transactions |-> <<>>,
     utxos |-> EmptyUtxo]

\* the loop of is_valid_transaction from input position i on
RECURSIVE SimpleValidInputs(_, _, _, _)
SimpleValidInputs(utxos, tx, i, input_sum) ==
    IF i > Len(tx.inputs) THEN ~(input_sum < SumValues(tx.outputs))
    ELSE LET utxo_key == <<tx.inputs[i].txid, tx.inputs[i].output_index>>
         IN  IF utxo_key \notin DOMAIN utxos THEN FALSE
             ELSE SimpleValidInputs(utxos, tx, i + 1,
                                    input_sum + utxos[utxo_key].value)

Simple_is_valid_transaction(self, tx) ==
    IF is_coinbase(tx) THEN TRUE ELSE SimpleValidInputs(self.utxos, tx, 1, 0)

\* spent outputs leave the dictionary and new ones enter it on submission
Simple_add_transaction(self, tx) ==
    IF ~Simple_is_valid_transaction(self, tx) THEN [self |-> self, ret |-> FALSE]
    ELSE [self |-> [self EXCEPT
                      !.utxos = AddOutputs(RemoveInputs(@, tx.inputs),
                                           tx.txid, tx.outputs, 1),
                      !.pending_transactions = Append(@, tx)],
          ret |-> TRUE]

\* ret is FALSE for None, and block is the block that was appended
Simple_mine_pending_transactions(self, miner_address) ==
    IF self.pending_transactions = <<>>
    THEN [self |-> self, ret |-> FALSE, block |-> Simple_genesis_block]
    ELSE LET coinbase_tx == Simple_Transaction(<<>>,
                 <<TransactionOutput(Reward, miner_address)>>)
             pending == <<coinbase_tx>> \o self.pending_transactions
             new_block == Simple_mine(
                 Simple_Block(Len(self.chain), pending,
                              self.chain[Len(self.chain)].hash, SimpleBlockTime),
                 Difficulty)
         IN  [self |-> [self EXCEPT !.chain = Append(@, new_block),
                                    !.pending_transactions = <<>>],
              ret |-> TRUE, block |-> new_block]

Simple_is_chain_valid(blocks, difficulty) ==
    \A i \in 2..Len(blocks) :
        LET current_block == blocks[i]
            previous_block == blocks[i - 1]
        IN  /\ ~(current_block.hash # Simple_calculate_hash(current_block))
            /\ ~(current_block.previous_hash # previous_block.hash)
            /\ ~(HexPrefix(current_block.hash, difficulty) # Zeros(difficulty))

\* the ledger object held in the variables; forks is not a field of it
simple == [chain |-> chain, pending_transactions |-> pending_transactions,
           utxos |-> utxo]

SimpleBecomes(self) ==
    /\ chain' = self.chain
    /\ pending_transactions' = self.pending_transactions
    /\ utxo' = self.utxos
    /\ UNCHANGED forks

InitSimple ==
    /\ chain = Simple_Blockchain.chain
    /\ pending_transactions = Simple_Blockchain.pending_transactions
    /\ utxo = Simple_Blockchain.utxos
    /\ forks = <<>>
    /\ last = Idle

\* a zero-input transaction, a spend of an output that never existed, and
\* per unspent output a payment it covers and one it does not
SimpleNewTransactions ==
    {Simple_Transaction(<<>>, Pay(60))}
    \cup {Simple_Transaction(<<Dangling>>, Pay(30))}
    \cup {Simple_Transaction(<<Spend(k)>>, <<TransactionOutput(v, 1)>>) :
            k \in DOMAIN utxo, v \in {20, 100}}

SimpleAddTransaction ==
    /\ last.op = "idle"
    /\ Len(chain) < MaxChain
    /\ Len(pending_transactions) < MaxPending
    /\ \E tx \in SimpleNewTransactions :
         LET r == Simple_add_transaction(simple, tx)
         IN  /\ SimpleBecomes(r.self)
             /\ last' = [op |-> "add_transaction", tx |-> tx, ret |-> r.ret]

SimpleMinePendingTransactions ==
    /\ last.op = "idle"
    /\ Len(chain) < MaxChain
    /\ \E miner_address \in Miners :
         LET r == Simple_mine_pending_transactions(simple, miner_address)
         IN  /\ SimpleBecomes(r.self)
             /\ last' = [op |-> "mine_pending_transactions",
                         block |-> r.block, ret |-> r.ret]

\* a block with one stored field set to a different value; the transaction
\* list loses its first transaction, or keeps its transactions' ids while
\* the first one pays something else
SimpleOverwritten(block) ==
    {[block EXCEPT !.index = block.index + 1],
     [block EXCEPT !.transactions
         = IF @ = <<>> THEN <<Simple_Transaction(<<>>, Pay(30))>> ELSE Tail(@)],
     [block EXCEPT !.transactions
         = IF @ = <<>> THEN @ ELSE [@ EXCEPT ![1].outputs = Pay(99)]],
     [block EXCEPT !.previous_hash = UnknownHash],
     [block EXCEPT !.timestamp = block.timestamp + 1],
     [block EXCEPT !.nonce = block.nonce + 1],
     [block EXCEPT !.hash = UnknownHash],
     [block EXCEPT !.hash = ZeroHash]}
    \ {block}

\* the holder of the chain assigns one field of one block
SimpleOverwrite ==
    /\ last.op = "idle"
    /\ \E i \in 1..Len(chain) : \E block \in SimpleOverwritten(chain[i]) :
         /\ chain' = [chain EXCEPT ![i] = block]
         /\ last' = [op |-> "overwrite", position |-> i, before |-> chain]
    /\ UNCHANGED <<pending_transactions, utxo, forks>>

SimpleReturn ==
    /\ last.op \in {"add_transaction", "mine_pending_transactions"}
    /\ last' = Idle
    /\ UNCHANGED <<chain, pending_transactions, utxo, forks>>

NextSimple ==
    \/ SimpleAddTransaction
    \/ SimpleMinePendingTransactions
    \/ SimpleOverwrite
    \/ SimpleReturn

SpecSimple == InitSimple /\ [][NextSimple]_vars

(***************************************************************************)
(* Properties.                                                             *)
(***************************************************************************)
Ledger == <<chain, pending_transactions, utxo, forks>>

\* the live set rebuilt from nothing along a chain
Replay(blocks) == ApplyBlocks(EmptyUtxo, blocks)

InputKeys(tx) == {<<tx.inputs[i].txid, tx.inputs[i].output_index>> :
                    i \in 1..Len(tx.inputs)}

TipHash == chain[Len(chain)].hash

\* C1: whenever add_block returns false, the canonical chain, the live UTXO
\* set, the tracked forks and the pending pool are what they were before
\* the call.
C1_RejectedBlockHasNoEffect ==
    [][(last'.op = "add_block" /\ ~last'.ret) => UNCHANGED Ledger]_vars

\* C1 witness: a block that passes the structural check on a chain that
\* holds transactions was rejected for a transaction that overspends, spends
\* twice or spends what is not there, while a transaction was pending.
C1_Witness ==
    /\ last.op = "add_block" /\ ~last.ret
    /\ validate(last.block, TipHash)
    /\ coinbase_ok(last.block)
    /\ ~ValidateTransactions(last.block, 1, utxo, {})
    /\ Len(chain) > 1 /\ utxo # EmptyUtxo /\ pending_transactions # <<>>

C3_CanonicalHasMaxWork ==
    \A i \in 1..Len(forks) :
        get_chain_difficulty(chain) >= get_chain_difficulty(forks[i])

\* the tracked forks whose tip a block declares as its previous hash
ForksExtendedBy(block) ==
    {i \in 1..Len(forks) : forks[i][Len(forks[i])].hash = block.previous_hash}

\* C4 (as claimed): when fork handling extends a tracked fork, the canonical
\* chain becomes that fork if and only if the fork's cumulative work is
\* strictly greater than the canonical chain's.
C4_SwitchIffMoreWork ==
    [][(last'.op = "_handle_fork" /\ ForksExtendedBy(last'.block) # {})
       => LET i == CHOOSE x \in ForksExtendedBy(last'.block) :
                       \A y \in ForksExtendedBy(last'.block) : x <= y
              fork_chain == Append(forks[i], last'.block)
          IN  (chain' = fork_chain)
              <=> (get_chain_difficulty(fork_chain) > get_chain_difficulty(chain))
      ]_vars

\* a mined block with a correct Merkle root and one well-formed reward
\* transaction, built on a block of the canonical chain below the tip
StartsFork(block) ==
    /\ validate(block, block.previous_hash)
    /\ ValidateTransactions(block, 1, utxo, {})
    /\ coinbase_ok(block)
    /\ \E j \in 1..(Len(chain) - 1) : chain[j].hash = block.previous_hash
    /\ block.previous_hash # TipHash

\* C5 (as claimed): add_block accepts a valid block built on a non-tip block
\* of the canonical chain and starts a fork with it: the canonical prefix up
\* to that ancestor, then the block.
C5_OffTipBlockStartsFork ==
    [][(last'.op = "add_block" /\ StartsFork(last'.block))
       => /\ last'.ret
          /\ \E i \in 1..Len(forks') : \E j \in 1..(Len(chain) - 1) :
               /\ chain[j].hash = last'.block.previous_hash
               /\ forks'[i] = Append(SubSeq(chain, 1, j), last'.block)
      ]_vars

\* C6 (as claimed): whenever fork handling adopts a fork, the resulting live
\* UTXO set is the replay of the new canonical chain, so getBalance counts
\* nothing that only a discarded block paid.
C6_ReorgRebuildsUtxo ==
    [][(last'.op = "_handle_fork" /\ chain' # chain)
       => /\ utxo' = Replay(chain')
          /\ \A a \in Address :
               get_balance(utxo', a) = get_balance(Replay(chain'), a)
      ]_vars

\* the positions of the zero-input transactions of a block
CoinbasePositions(block) ==
    {i \in 1..Len(block.transactions) : is_coinbase(block.transactions[i])}

\* C7 (as claimed): add_block rejects every block that has a zero-input
\* transaction anywhere but at index 0, or more than one of them.
C7_OnlyOneCoinbaseAtIndexZero ==
    (last.op = "add_block" /\ last.ret) => CoinbasePositions(last.block) \subseteq {1}

\* the transaction at index 0 is a coinbase that does not have exactly one
\* output of the fixed reward
MalformedCoinbaseFirst(block) ==
    /\ block.transactions # <<>>
    /\ is_coinbase(block.transactions[1])
    /\ \/ Len(block.transactions[1].outputs) # 1
       \/ block.transactions[1].outputs[1].value # Reward

\* C8: add_block rejects every block whose transaction at index 0 is a
\* coinbase without exactly one output of value 50, although
\* validate_transaction finds that coinbase valid.
C8_MalformedCoinbaseRejected ==
    (last.op = "add_block" /\ MalformedCoinbaseFirst(last.block))
    => /\ ~last.ret
       /\ validate_transaction(utxo, last.block.transactions[1]).valid

\* C8 witness: a block rejected for its coinbase alone: it passes the
\* structural check and its transactions validate; seen for a coinbase of
\* another value on a chain that already holds a block.
C8_Witness ==
    /\ last.op = "add_block" /\ ~last.ret
    /\ MalformedCoinbaseFirst(last.block)
    /\ validate(last.block, TipHash)
    /\ ValidateTransactions(last.block, 1, utxo, {})
    /\ Len(last.block.transactions[1].outputs) = 1
    /\ Len(chain) > 1

\* C9 (as claimed): the pending pool never holds two transactions that
\* spend the same output, because the second submission is refused.
C9_NoConflictingPending ==
    \A i, j \in 1..Len(pending_transactions) :
        pending_transactions[i].txid # pending_transactions[j].txid
        => InputKeys(pending_transactions[i])
           \cap InputKeys(pending_transactions[j]) = {}

\* C10 (as claimed): after add_block accepts a block on the canonical tip,
\* whether mine_block built it or not, none of its non-coinbase
\* transactions is left in the pending pool.
C10_AcceptedTransactionsLeavePool ==
    (last.op \in {"add_block", "mine_block"} /\ last.ret)
    => \A i \in 1..Len(last.block.transactions) :
         ~is_coinbase(last.block.transactions[i])
         => last.block.transactions[i] \notin Range(pending_transactions)

\* the result the reference gives for a transaction on a set: a zero-input
\* transaction is valid with total 0; otherwise the transaction is valid,
\* with the sum of the referenced values, iff no two inputs name the same
\* output, every input names an entry of the set and the inputs cover the
\* outputs
ReferenceValidation(utxos, tx) ==
    LET n == Len(tx.inputs)
        key(i) == <<tx.inputs[i].txid, tx.inputs[i].output_index>>
        distinct == \A i, j \in 1..n : i # j => key(i) # key(j)
        present == \A i \in 1..n : key(i) \in DOMAIN utxos
        total == SumSeq([i \in 1..n |-> utxos[key(i)].value])
    IN  IF n = 0 THEN [valid |-> TRUE, total_input |-> 0]
        ELSE IF distinct /\ present /\ total >= SumValues(tx.outputs)
        THEN [valid |-> TRUE, total_input |-> total]
        ELSE [valid |-> FALSE, total_input |-> 0]

\* C11: validate_transaction returns what the reference gives, for every
\* transaction and every set, and leaves the set as it was.
C11_ValidateTransactionMatchesReference ==
    [][last'.op = "validate_transaction"
       => /\ last'.ret = ReferenceValidation(utxo, last'.tx)
          /\ utxo' = utxo]_vars

\* C11 witness: a transaction of three distinct inputs, all present, whose
\* outputs take exactly what the inputs hold, was found valid.
C11_Witness ==
    /\ last.op = "validate_transaction"
    /\ Len(last.tx.inputs) = 3
    /\ last.ret.valid
    /\ last.ret.total_input = SumValues(last.tx.outputs)
    /\ last.ret.total_input > 0

\* the value an entry adds to the balance of an address
Owned(utxos, key, address) ==
    IF key \in DOMAIN utxos /\ utxos[key].recipient = address
    THEN utxos[key].value ELSE 0

\* C19: get_balance returns the sum of the values of the entries of the live
\* set whose recipient is the address, 0 when the address owns no entry, and
\* changes no state.
C19_BalanceIsSumOfOwnedEntries ==
    [][last'.op = "get_balance"
       => /\ \E keys \in [1..Cardinality(DOMAIN utxo) -> DOMAIN utxo] :
               /\ \A k \in DOMAIN utxo : \E i \in DOMAIN keys : keys[i] = k
               /\ last'.ret
                  = SumSeq([i \in DOMAIN keys |-> Owned(utxo, keys[i], last'.address)])
          /\ (\A k \in DOMAIN utxo : utxo[k].recipient # last'.address)
             => last'.ret = 0
          /\ UNCHANGED Ledger]_vars

\* C19 witness: the balance of an address that owns two entries of a set in
\* which another address owns the third.
C19_Witness ==
    /\ last.op = "get_balance"
    /\ last.ret = 100
    /\ Cardinality(DOMAIN utxo) = 3
    /\ \E k \in DOMAIN utxo : utxo[k].recipient # last.address

\* C14: mine_block called with an empty pending pool returns none and leaves
\* the canonical chain, the live UTXO set, the tracked forks and the pending
\* pool unchanged.
C14_MineBlockOnEmptyPool ==
    [][(last'.op = "mine_block" /\ pending_transactions = <<>>)
       => (~last'.ret /\ UNCHANGED Ledger)]_vars

\* C14 witness: mine_block returned none on an empty pool, on a chain that
\* already holds a mined block and an unspent output.
C14_Witness ==
    /\ last.op = "mine_block" /\ ~last.ret
    /\ pending_transactions = <<>>
    /\ Len(chain) > 1 /\ utxo # EmptyUtxo

\* C18: add_transaction appends the transaction to the end of the pending
\* pool and returns true iff validate_transaction passes against the live
\* set; otherwise it returns false and the pool is unchanged; either way the
\* live set, the canonical chain and the tracked forks are unchanged.
C18_SubmitOnlyTouchesPool ==
    [][last'.op = "add_transaction"
       => /\ last'.ret = validate_transaction(utxo, last'.tx).valid
          /\ pending_transactions'
             = IF last'.ret THEN Append(pending_transactions, last'.tx)
               ELSE pending_transactions
          /\ UNCHANGED <<utxo, chain, forks>>
          /\ \A a \in Address : get_balance(utxo', a) = get_balance(utxo, a)]_vars

\* C18 witness: a transaction that spends an unspent output was accepted
\* behind another pending transaction, and its input is still in the set.
C18_Witness ==
    /\ last.op = "add_transaction" /\ last.ret
    /\ ~is_coinbase(last.tx)
    /\ Len(pending_transactions) = 2
    /\ pending_transactions[2] = last.tx
    /\ InputKeys(last.tx) \subseteq DOMAIN utxo

\* the transaction at position i and the one at position j of a block are
\* different non-coinbase transactions with an input naming the same output
Conflict(block, i, j) ==
    /\ ~is_coinbase(block.transactions[i])
    /\ ~is_coinbase(block.transactions[j])
    /\ block.transactions[i].txid # block.transactions[j].txid
    /\ InputKeys(block.transactions[i]) \cap InputKeys(block.transactions[j]) # {}

HasConflict(block) ==
    \E i, j \in 1..Len(block.transactions) : i # j /\ Conflict(block, i, j)

C15_MineFindsTargetAndKeepsFields ==
    [][last'.op = "mine"
       => LET block == last'.block
              before == last'.before
          IN  /\ before = last.block
              /\ block.hash
                 = header_hash([block.header EXCEPT !.nonce = block.nonce])
              /\ block.header.nonce = block.nonce
              /\ HexPrefix(block.hash, block.difficulty) = Zeros(block.difficulty)
              /\ block.previous_hash = before.previous_hash
              /\ block.merkle_root = before.merkle_root
              /\ block.difficulty = before.difficulty
              /\ block.transactions = before.transactions
              /\ block.header.previous_hash = before.header.previous_hash
              /\ block.header.merkle_root = before.header.merkle_root
              /\ block.header.difficulty = before.header.difficulty]_vars

\* C15 witness: mining at difficulty 2 took more than one nonce on a block
\* that holds transactions.
C15_Witness ==
    /\ last.op = "mine"
    /\ last.block.difficulty = 2
    /\ last.block.nonce > 1
    /\ last.block.transactions # <<>>
    /\ ~meets_target(last.before)

\* C16: validate(previous_hash) returns true iff the block's previous hash
\* is the expected one, the stored hash has `difficulty` leading zero digits
\* and the Merkle root recomputed from the current transaction list is the
\* stored one; it changes no field of the block.
C16_ValidateIffThreeChecks ==
    last.op = "validate"
    => /\ last.ret
          <=> /\ last.block.previous_hash = last.previous_hash
              /\ HexPrefix(last.block.hash, last.block.difficulty)
                 = Zeros(last.block.difficulty)
              /\ calculate_merkle_root(last.block.transactions)
                 = last.block.merkle_root
       /\ last.block = last.before

\* C16 witness: a block refused for its Merkle root alone: its previous
\* hash is the expected one and its hash meets the target.
C16_Witness ==
    /\ last.op = "validate" /\ ~last.ret
    /\ last.block.previous_hash = last.previous_hash
    /\ meets_target(last.block)
    /\ last.block.difficulty = 2
    /\ last.block.transactions # <<>>

\* C17: for a block built from transactions with pairwise distinct ids,
\* replacing the list by a different ordering of the same transactions
\* changes the recomputed Merkle root, so validate returns false.
C17_ReorderingChangesMerkleRoot ==
    last.op = "reorder"
    => /\ calculate_merkle_root(last.block.transactions)
          # calculate_merkle_root(last.before.transactions)
       /\ calculate_merkle_root(last.block.transactions) # last.block.merkle_root
       /\ ~validate(last.block, last.block.previous_hash)

\* C17 witness: three transactions, the last of which (the one the padding
\* duplicates) kept its place while the first two changed places.
C17_Witness ==
    /\ last.op = "reorder"
    /\ Len(last.block.transactions) = 3
    /\ last.block.transactions[3] = last.before.transactions[3]
    /\ last.block.transactions[1] = last.before.transactions[2]
    /\ validate(last.before, last.before.previous_hash)

\* C12: after any sequence of add_transaction and mine_pending_transactions
\* calls on a freshly constructed single-file ledger, is_chain_valid() is
\* true.
C12_ChainOfLedgerIsValid ==
    last.op # "overwrite" => Simple_is_chain_valid(chain, Difficulty)

\* C12 witness: a chain of three blocks, the last one mined from two pending
\* transactions.
C12_Witness ==
    /\ last.op = "mine_pending_transactions" /\ last.ret
    /\ Len(chain) = 3
    /\ Len(chain[3].transactions) = 3

\* C13 (as claimed): on a chain on which is_chain_valid() is true, setting
\* one stored field of one block, the genesis block included, to a different
\* value makes is_chain_valid() false.
C13_AnyOverwriteIsDetected ==
    (last.op = "overwrite" /\ Simple_is_chain_valid(last.before, Difficulty))
    => ~Simple_is_chain_valid(chain, Difficulty)

\* a mined block on the canonical tip that holds a well-formed coinbase, a
\* transaction valid against the live set, and a transaction whose only
\* input is an output of that one, which covers what it pays
SpendsWithinBlock(block) ==
    /\ validate(block, TipHash)
    /\ Len(block.transactions) = 3
    /\ is_coinbase(block.transactions[1])
    /\ Len(block.transactions[1].outputs) = 1
    /\ block.transactions[1].outputs[1].value = Reward
    /\ LET earlier == block.transactions[2]
           later == block.transactions[3]
       IN  /\ ~is_coinbase(earlier)
           /\ ReferenceValidation(utxo, earlier).valid
           /\ InputKeys(earlier) \cap InputKeys(later) = {}
           /\ Len(later.inputs) = 1
           /\ later.inputs[1].txid = earlier.txid
           /\ later.inputs[1].output_index < Len(earlier.outputs)
           /\ earlier.outputs[later.inputs[1].output_index + 1].value
              >= SumValues(later.outputs)

\* C21: add_block accepts a block whose later transaction spends an output
\* that an earlier transaction of the same block created; afterwards that
\* output is not in the live set and the later transaction's outputs are,
\* each under (its id, its position).
C21_SpendWithinBlockAccepted ==
    [][(last'.op = "add_block" /\ SpendsWithinBlock(last'.block))
       => LET earlier == last'.block.transactions[2]
              later == last'.block.transactions[3]
          IN  /\ last'.ret
              /\ chain' = Append(chain, last'.block)
              /\ InputKeys(later) \cap DOMAIN utxo' = {}
              /\ \A i \in 1..Len(later.outputs) :
                   /\ <<later.txid, i - 1>> \in DOMAIN utxo'
                   /\ utxo'[<<later.txid, i - 1>>] = later.outputs[i]]_vars

\* C21 witness: such a block was accepted on a chain of two blocks.
C21_Witness ==
    /\ last.op = "add_block" /\ last.ret
    /\ Len(chain) = 3 /\ chain[3] = last.block
    /\ Len(last.block.transactions) = 3
    /\ ~is_coinbase(last.block.transactions[2])
    /\ Len(last.block.transactions[3].inputs) = 1
    /\ last.block.transactions[3].inputs[1].txid = last.block.transactions[2].txid
    /\ <<last.block.transactions[3].txid, 0>> \in DOMAIN utxo

\* a transaction id stands at two positions of the block's list
HasDuplicateId(block) ==
    \E i, j \in 1..Len(block.transactions) :
        i # j /\ block.transactions[i].txid = block.transactions[j].txid

\* C22: add_block rejects every block whose transaction list holds the same
\* transaction id at two positions, coinbase or not, and changes neither
\* the chain nor the live set.
C22_DuplicateIdRejected ==
    [][(last'.op = "add_block" /\ HasDuplicateId(last'.block))
       => (~last'.ret /\ UNCHANGED <<chain, utxo>>)]_vars

\* C22 witness: a block on the tip was rejected that is mined, has a
\* well-formed coinbase at index 0 and holds that coinbase a second time,
\* while the live set is not empty.
C22_Witness ==
    /\ last.op = "add_block" /\ ~last.ret
    /\ HasDuplicateId(last.block)
    /\ validate(last.block, TipHash)
    /\ coinbase_ok(last.block)
    /\ \A i \in 1..Len(last.block.transactions) :
         is_coinbase(last.block.transactions[i])
    /\ utxo # EmptyUtxo

\* the ids of the transactions in the blocks of the canonical chain
CanonicalTxids ==
    UNION {{chain[j].transactions[n].txid : n \in 1..Len(chain[j].transactions)} :
             j \in 1..Len(chain)}

\* C23: a call of _handle_fork that replaces the canonical chain leaves the
\* pending pool as it was: nothing is put back into it and nothing is
\* removed from it.
C23_ReorgKeepsPool ==
    [][(last'.op = "_handle_fork" /\ chain' # chain)
       => pending_transactions' = pending_transactions]_vars

\* C23 witness: a fork has just replaced the canonical chain while the pool
\* holds a transaction that spends an output of a transaction that is in no
\* canonical block any more and is not in the pool either.
C23_Witness ==
    /\ last.op = "_handle_fork" /\ last.ret
    /\ chain[Len(chain)] = last.block
    /\ \E i \in 1..Len(pending_transactions) :
         \E k \in InputKeys(pending_transactions[i]) :
            /\ k \in DOMAIN utxo
            /\ k[1] \notin CanonicalTxids
            /\ \A j \in 1..Len(pending_transactions) :
                 pending_transactions[j].txid # k[1]

\* C24: whenever the pending pool is not empty, mine_block returns a block,
\* that block is the new canonical tip with a reward transaction of value
\* 50 to the miner at index 0, and the pool is empty afterwards.
C24_MineBlockDrainsPool ==
    [][(last'.op = "mine_block" /\ pending_transactions # <<>>)
       => /\ last'.ret
          /\ chain' = Append(chain, last'.block)
          /\ is_coinbase(last'.block.transactions[1])
          /\ last'.block.transactions[1].outputs[1].value = Reward
          /\ last'.block.transactions[1].outputs[1].recipient \in Miners
          /\ pending_transactions' = <<>>]_vars

\* the output named by input a of transaction n of canonical block i
SpentAt(i, n, a) ==
    <<chain[i].transactions[n].inputs[a].txid,
      chain[i].transactions[n].inputs[a].output_index>>

\* C25: along the canonical chain each (txid, index) output is named by at
\* most one transaction input in total.
C25_OutputSpentAtMostOnce ==
    \A i, j \in 1..Len(chain) :
      \A n \in 1..Len(chain[i].transactions) :
        \A m \in 1..Len(chain[j].transactions) :
          \A a \in 1..Len(chain[i].transactions[n].inputs) :
            \A b \in 1..Len(chain[j].transactions[m].inputs) :
              (<<i, n, a>> # <<j, m, b>>) => (SpentAt(i, n, a) # SpentAt(j, m, b))

\* the sum of the values of the entries of a live set
RECURSIVE TotalValue(_)
TotalValue(utxos) ==
    IF DOMAIN utxos = {} THEN 0
    ELSE LET k == CHOOSE x \in DOMAIN utxos : TRUE
         IN  utxos[k].value
             + TotalValue([x \in DOMAIN utxos \ {k} |-> utxos[x]])

\* C26: the values of the live UTXO set add up to at most 50 times the
\* number of canonical blocks after the genesis block.
C26_ValueBoundedByRewards ==
    TotalValue(utxo) <= Reward * (Len(chain) - 1)

\* C27: every block of the canonical chain declares the difficulty the
\* chain manager was configured with, and its hash starts with at least
\* that many zero hex digits.
C27_CanonicalBlocksAtConfiguredDifficulty ==
    \A i \in 1..Len(chain) :
        /\ chain[i].difficulty = Difficulty
        /\ HexPrefix(chain[i].hash, Difficulty) = Zeros(Difficulty)

\* C28: every block of the canonical chain stores the hash of its header,
\* and its previous_hash and difficulty fields equal the header's.
C28_CanonicalBlocksCommittedByHeader ==
    \A i \in 1..Len(chain) :
        /\ chain[i].hash = header_hash(chain[i].header)
        /\ chain[i].previous_hash = chain[i].header.previous_hash
        /\ chain[i].difficulty = chain[i].header.difficulty

\* every block after the first names the hash of the block before it
HashLinked(blocks) ==
    \A i \in 2..Len(blocks) : blocks[i].previous_hash = blocks[i - 1].hash

\* C29: the canonical chain is never empty, starts with the genesis block
\* and is hash-linked end to end, and so is every tracked fork sequence,
\* also after a fork has replaced the canonical chain.
C29_ChainAndForksHashLinked ==
    /\ Len(chain) >= 1
    /\ chain[1] = genesis_block
    /\ HashLinked(chain)
    /\ \A f \in 1..Len(forks) : HashLinked(forks[f])

\* C29 witness: a fork of at least three blocks has just replaced the
\* canonical chain.
C29_Witness ==
    /\ last.op = "_handle_fork" /\ last.ret
    /\ Len(chain) >= 3
    /\ chain[Len(chain)] = last.block

====
